---- MODULE Spec2Model ----
(***************************************************************************)
(* Model of the jaburepo crate: the local repository (path derivation,     *)
(* save_artifact / save_pom / exists / get_artifact_available_versions),   *)
(* the remote repository URL derivation and the resolver                   *)
(* (save_from_remote / recursive_save_from_remote).                        *)
(*                                                                         *)
(* Strings are sequences of one-character strings, so that splitting at    *)
(* '.', PathBuf::extension and PathBuf::set_extension are computed as the  *)
(* standard library computes them.  A path is the sequence of its          *)
(* components; every component used here is non-empty, holds no path       *)
(* separator and is neither "." nor "..".  An Option is a sequence of      *)
(* length 0 (None) or 1 (Some).                                            *)
(***************************************************************************)
EXTENDS Integers, Sequences, FiniteSets, TLC

VARIABLES
    base_path,      \* Repository.base_path
    fs,             \* the file system under base_path: [files, dirs]
    remote,         \* what the remote serves as the pom of each coordinate
    pc,             \* position of the running call
    mode,           \* "single" (save_from_remote) or "recursive"
    root,           \* `artifact` of recursive_save_from_remote
    dep,            \* `artifact` of save_from_remote (`dep` of the loop)
    artifact_list,  \* the frontier of recursive_save_from_remote
    pom_url,        \* locals of save_from_remote
    jar_url,
    pom_response,
    jar_response,
    artifact_pom,   \* local of the loop: text read at line 187
    err,            \* the error the call returned, "none" if none
    fresh,          \* the running call started on an empty local store
    repeat,         \* the caller makes further calls after a call returned
    called,         \* per call: number of save_from_remote invocations per coordinate
    cb,             \* per call: arguments of each callback invocation per coordinate
    requests,       \* per call: number of network requests per coordinate
    op,             \* store / path scenarios: the last operation applied
    arg,            \* store / path scenarios: its coordinate
    saves,          \* store scenario: the saves made, as <<operation, coordinate, outcome>>
    versions,       \* store scenario: result of get_artifact_available_versions
    out_dir,        \* path scenario: results of the three path functions
    out_jar,
    out_pom

vars == <<base_path, fs, remote, pc, mode, root, dep, artifact_list, pom_url,
          jar_url, pom_response, jar_response, artifact_pom, err, fresh,
          repeat, called, cb, requests, op, arg, saves, versions,
          out_dir, out_jar, out_pom>>

resolverVars == <<remote, pc, mode, root, dep, artifact_list, pom_url, jar_url,
                  pom_response, jar_response, artifact_pom, err, fresh,
                  repeat, called, cb, requests>>
storeVars == <<op, arg, saves, versions>>
pathVars == <<out_dir, out_jar, out_pom>>

----------------------------------------------------------------------------
(* Bounds of the model.                                                    *)

\* longest dependency list of one manifest
MaxDeps == 2
\* most dependency declarations over all manifests of the remote
MaxEdges == 3
\* most save_from_remote invocations per coordinate recorded in one call
FetchCap == 2
\* most different saves made in one behaviour of the store scenario
MaxSaves == 3

----------------------------------------------------------------------------
(* Strings, options.                                                       *)

None == <<>>
Some(v) == <<v>>
Dot == "."
Dash == "-"

Last(s) == s[Len(s)]
Front(s) == SubSeq(s, 1, Len(s) - 1)

\* index of the last '.' of s, 0 if there is none
LastDot(s) ==
    IF \E i \in 1..Len(s) : s[i] = Dot
    THEN CHOOSE i \in 1..Len(s) :
             s[i] = Dot /\ \A j \in (i + 1)..Len(s) : s[j] # Dot
    ELSE 0

FirstDot(s) ==
    IF \E i \in 1..Len(s) : s[i] = Dot
    THEN CHOOSE i \in 1..Len(s) :
             s[i] = Dot /\ \A j \in 1..(i - 1) : s[j] # Dot
    ELSE 0

\* str::split("."): the pieces between the dots, empty pieces included
RECURSIVE split(_)
split(s) ==
    LET d == FirstDot(s)
    IN IF d = 0 THEN <<s>>
       ELSE <<SubSeq(s, 1, d - 1)>> \o split(SubSeq(s, d + 1, Len(s)))

----------------------------------------------------------------------------
(* std::path as the repository uses it.                                    *)

\* Path::join of a relative, single-component string
join(path, component) == Append(path, component)

file_name(path) ==
    IF path = <<>> \/ Last(path) = <<Dot, Dot>> THEN None ELSE Some(Last(path))

\* the pair <<before, after>> the last '.' of a file name splits it in
rsplit_file_at_dot(file) ==
    IF file = <<Dot, Dot>> THEN <<Some(file), None>>
    ELSE LET d == LastDot(file)
             after == Some(SubSeq(file, d + 1, Len(file)))
             before == IF d = 0 THEN None ELSE Some(SubSeq(file, 1, d - 1))
         IN IF before = Some(<<>>) THEN <<Some(file), None>>
            ELSE <<before, after>>

\* Path::file_stem: before.or(after)
file_stem(path) ==
    IF file_name(path) = None THEN None
    ELSE LET ba == rsplit_file_at_dot(file_name(path)[1])
         IN IF ba[1] # None THEN ba[1] ELSE ba[2]

\* Path::extension: before.and(after)
extension(path) ==
    IF file_name(path) = None THEN None
    ELSE LET ba == rsplit_file_at_dot(file_name(path)[1])
         IN IF ba[1] # None THEN ba[2] ELSE None

unwrap_or_default(o) == IF o = None THEN <<>> ELSE o[1]

\* PathBuf::set_extension: truncate to the stem, then push "." and the new
\* extension if it is not empty
set_extension(path, ext) ==
    IF file_stem(path) = None THEN path
    ELSE LET stem == file_stem(path)[1]
         IN Append(Front(path),
                   IF ext = <<>> THEN stem ELSE stem \o <<Dot>> \o ext)

JarSuffix == <<Dot, "j", "a", "r">>
PomSuffix == <<Dot, "p", "o", "m">>

artifact_as_dirname(base, artifact) ==
    join(join(base, artifact.group_id), artifact.artifact_id)

artifact_jar_path(base, artifact) ==
    LET path == join(artifact_as_dirname(base, artifact), artifact.version)
    IN set_extension(path, unwrap_or_default(extension(path)) \o JarSuffix)

artifact_pom_path(base, artifact) ==
    LET path == join(artifact_as_dirname(base, artifact), artifact.version)
    IN set_extension(path, unwrap_or_default(extension(path)) \o PomSuffix)

----------------------------------------------------------------------------
(* Coordinates and file contents of the model.                             *)

Artifact(g, n, v) == [group_id |-> g, artifact_id |-> n, version |-> v]

\* o.j:a:1.0, o.j:a:1 (a version without a dot), g:b:1. and o.j:a:1.
A1 == Artifact(<<"o", Dot, "j">>, <<"a">>, <<"1", Dot, "0">>)
A2 == Artifact(<<"o", Dot, "j">>, <<"a">>, <<"1">>)
A3 == Artifact(<<"g">>, <<"b">>, <<"1", Dot>>)
A4 == Artifact(<<"o", Dot, "j">>, <<"a">>, <<"1", Dot>>)

\* the coordinates the remote serves
Artifacts == {A1, A2, A3}
\* the coordinates saved directly in the store scenario
StoreArtifacts == {A1, A2, A3, A4}
\* the inputs of the path scenario
Groups == {<<"o", Dot, "j">>, <<"g">>}
Names == {<<"a">>, <<"b">>}
Versions == {<<"1", Dot, "0", Dot, "0">>, <<"1", Dot, "0">>, <<"1">>, <<"1", Dot>>}
PathArtifacts == {Artifact(g, n, v) : g \in Groups, n \in Names, v \in Versions}
Repo == <<"r", "e", "p", "o">>
Home == <<"h", "o", "m", "e">>
Bases == {<<Repo>>, <<Home, Repo>>}

Pom(deps) == [kind |-> "pom", deps |-> deps]
BadPom == [kind |-> "bad", deps |-> <<>>]
JarBytes == [kind |-> "jar", deps |-> <<>>]
\* what a file holds when the copy into it failed part-way
Partial == [kind |-> "partial", deps |-> <<>>]
NoBytes == [kind |-> "none", deps |-> <<>>]

DepLists == UNION {[1..n -> Artifacts] : n \in 0..MaxDeps}
Manifests == {Pom(d) : d \in DepLists}

RECURSIVE Sum(_, _)
Sum(f, S) == IF S = {} THEN 0
             ELSE LET x == CHOOSE x \in S : TRUE IN f[x] + Sum(f, S \ {x})

\* the remotes of the model: every manifest assignment with at most n
\* dependency declarations
Remotes(n) == {r \in [Artifacts -> Manifests] :
                  Sum([a \in Artifacts |-> Len(r[a].deps)], Artifacts) <= n}

----------------------------------------------------------------------------
(* The local store.                                                        *)

EmptyFs == [files |-> {}, dirs |-> {}]

is_file(fsv, path) == \E f \in fsv.files : f.path = path
read(fsv, path) == (CHOOSE f \in fsv.files : f.path = path).content

exists(fsv, base, artifact) == is_file(fsv, artifact_pom_path(base, artifact))

create_dir_all(fsv, dir) ==
    [fsv EXCEPT !.dirs = @ \cup {SubSeq(dir, 1, k) : k \in 1..Len(dir)}]

\* File::create followed by io::copy
write(fsv, path, content) ==
    [fsv EXCEPT !.files = {f \in @ : f.path # path}
                          \cup {[path |-> path, content |-> content]}]

\* how a save ends: Ok, or an Err from create_dir_all, File::create or copy
SaveOutcomes == {"ok", "create_dir_all", "create", "copy"}

save_file(fsv, dir, path, content, outcome) ==
    CASE outcome = "create_dir_all" -> fsv
      [] outcome = "create" -> create_dir_all(fsv, dir)
      [] outcome = "copy" -> write(create_dir_all(fsv, dir), path, Partial)
      [] OTHER -> write(create_dir_all(fsv, dir), path, content)

save_artifact(fsv, base, artifact, content, outcome) ==
    save_file(fsv, artifact_as_dirname(base, artifact),
              artifact_jar_path(base, artifact), content, outcome)

save_pom(fsv, base, artifact, content, outcome) ==
    save_file(fsv, artifact_as_dirname(base, artifact),
              artifact_pom_path(base, artifact), content, outcome)

\* read_dir: the entries directly under dir
read_dir(fsv, dir) ==
    {f.path : f \in {g \in fsv.files : Front(g.path) = dir}}
        \cup {d \in fsv.dirs : Len(d) > 1 /\ Front(d) = dir}

get_artifact_available_versions(fsv, base, artifact) ==
    LET dir == artifact_as_dirname(base, artifact)
    IN IF dir \notin fsv.dirs THEN None
       ELSE Some({file_stem(p)[1] : p \in read_dir(fsv, dir)})

----------------------------------------------------------------------------
(* The remote repository: a URL is the sequence of its path segments       *)
(* below the base https://repo1.maven.org/.                                *)

Maven2 == <<"m", "a", "v", "e", "n", "2">>

\* PathSegmentsMut::push: "." and ".." are not pushed
push(url, segment) ==
    IF segment = <<Dot>> \/ segment = <<Dot, Dot>> THEN url
    ELSE Append(url, segment)

RECURSIVE push_all(_, _)
push_all(url, segments) ==
    IF segments = <<>> THEN url
    ELSE push_all(push(url, segments[1]), Tail(segments))

artifact_url(artifact) ==
    push(push(push(push_all(<<Maven2>>, split(artifact.group_id)),
                   artifact.artifact_id),
              artifact.version),
         artifact.artifact_id \o <<Dash>> \o artifact.version)

\* base_artifact_url.to_string() + suffix, parsed again
with_suffix(url, suffix) == Append(Front(url), Last(url) \o suffix)

jar_artifact_url(artifact) == with_suffix(artifact_url(artifact), JarSuffix)
pom_artifact_url(artifact) == with_suffix(artifact_url(artifact), PomSuffix)

----------------------------------------------------------------------------
(* The manifest parser: Some(dependencies) or None for a parse error.      *)

dependencies_in_pom(text) ==
    IF text.kind = "pom" THEN Some(text.deps) ELSE None

----------------------------------------------------------------------------
(* The resolver: save_from_remote and recursive_save_from_remote, one      *)
(* action per statement.  A call starts when no call is running.           *)

Idle == {"idle", "done", "failed"}
NoUrl == <<>>
ZeroCount == [a \in Artifacts |-> 0]
NoCalls == [a \in Artifacts |-> <<>>]

\* the locals of save_from_remote and of the loop body go out of scope
DropLocals ==
    /\ pom_url' = NoUrl
    /\ jar_url' = NoUrl
    /\ pom_response' = NoBytes
    /\ jar_response' = NoBytes
    /\ artifact_pom' = NoBytes

\* a resolver that notes the error, skips the coordinate and goes on
SkipAndContinue(e) ==
    /\ pc' = "loop"
    /\ err' = e
    /\ DropLocals

\* the `?` operator: the error is returned to the caller of the running call
Return(e) ==
    /\ pc' = "failed"
    /\ err' = e
    /\ DropLocals

\* a frontier that is not filtered by what the store holds
retain_all(fsv, base, list) == list

\* Vec::into_iter().filter(|a| !self.exists(a)).collect()
retain_missing(fsv, base, list) ==
    SelectSeq(list, LAMBDA a : ~exists(fsv, base, a))

StartCall ==
    /\ pc = "idle" \/ (repeat /\ pc \in Idle)
    /\ err' = "none"
    /\ fresh' = (fs = EmptyFs)
    /\ cb' = NoCalls
    /\ requests' = ZeroCount
    /\ DropLocals
    /\ UNCHANGED <<base_path, fs, remote, repeat, storeVars, pathVars>>

\* a caller invokes save_from_remote(artifact, ..)
CallSaveFromRemote ==
    \E a \in Artifacts :
        /\ StartCall
        /\ mode' = "single"
        /\ root' = a
        /\ dep' = a
        /\ artifact_list' = <<>>
        /\ called' = [ZeroCount EXCEPT ![a] = 1]
        /\ pc' = "pom_url"

\* a caller invokes recursive_save_from_remote(artifact, ..): line 183
CallRecursive ==
    \E a \in Artifacts :
        /\ StartCall
        /\ mode' = "recursive"
        /\ root' = a
        /\ dep' = a
        /\ artifact_list' = <<a>>
        /\ called' = ZeroCount
        /\ pc' = "loop"

\* line 184: while let Some(dep) = artifact_list.pop(), then the call of line 185
LoopPop ==
    /\ pc = "loop"
    /\ artifact_list # <<>>
    /\ called[Last(artifact_list)] < FetchCap
    /\ dep' = Last(artifact_list)
    /\ artifact_list' = Front(artifact_list)
    /\ called' = [called EXCEPT ![Last(artifact_list)] = @ + 1]
    /\ pc' = "pom_url"
    /\ UNCHANGED <<base_path, fs, remote, mode, root, pom_url, jar_url,
                   pom_response, jar_response, artifact_pom, err, fresh, repeat, cb,
                   requests, storeVars, pathVars>>

\* line 184 with an empty list, line 195: Ok(())
LoopExit ==
    /\ pc = "loop"
    /\ artifact_list = <<>>
    /\ pc' = "done"
    /\ UNCHANGED <<base_path, fs, remote, mode, root, dep, artifact_list,
                   pom_url, jar_url, pom_response, jar_response, artifact_pom,
                   err, fresh, repeat, called, cb, requests, storeVars, pathVars>>

\* line 224
BuildPomUrl ==
    /\ pc = "pom_url"
    /\ \/ /\ pom_url' = pom_artifact_url(dep)
          /\ pc' = "jar_url"
          /\ UNCHANGED <<jar_url, pom_response, jar_response, artifact_pom, err>>
       \/ Return("InvalidArtifactName")
    /\ UNCHANGED <<base_path, fs, remote, mode, root, dep, artifact_list,
                   fresh, repeat, called, cb, requests, storeVars, pathVars>>

\* line 225
BuildJarUrl ==
    /\ pc = "jar_url"
    /\ \/ /\ jar_url' = jar_artifact_url(dep)
          /\ pc' = "callback"
          /\ UNCHANGED <<pom_url, pom_response, jar_response, artifact_pom, err>>
       \/ Return("InvalidArtifactName")
    /\ UNCHANGED <<base_path, fs, remote, mode, root, dep, artifact_list,
                   fresh, repeat, called, cb, requests, storeVars, pathVars>>

\* the callback handed the jar's url first
CallbackSwapped ==
    /\ pc = "callback"
    /\ cb' = [cb EXCEPT ![dep] = Append(@, <<jar_url, pom_url>>)]
    /\ pc' = "get_pom"
    /\ UNCHANGED <<base_path, fs, remote, mode, root, dep, artifact_list,
                   pom_url, jar_url, pom_response, jar_response, artifact_pom,
                   err, fresh, repeat, called, requests, storeVars, pathVars>>

\* line 227: action_per_download(pom_url, jar_url)
Callback ==
    /\ pc = "callback"
    /\ cb' = [cb EXCEPT ![dep] = Append(@, <<pom_url, jar_url>>)]
    /\ pc' = "get_pom"
    /\ UNCHANGED <<base_path, fs, remote, mode, root, dep, artifact_list,
                   pom_url, jar_url, pom_response, jar_response, artifact_pom,
                   err, fresh, repeat, called, requests, storeVars, pathVars>>

\* line 229: reqwest::blocking::get(pom_url)?  A response with an error
\* status is no Err: its body is no manifest
GetPom ==
    /\ pc = "get_pom"
    /\ requests' = [requests EXCEPT ![dep] = @ + 1]
    /\ \/ /\ pom_response' \in {remote[dep], BadPom}
          /\ pc' = "get_jar"
          /\ UNCHANGED <<pom_url, jar_url, jar_response, artifact_pom, err>>
       \/ Return("GetError")
    /\ UNCHANGED <<base_path, fs, remote, mode, root, dep, artifact_list,
                   fresh, repeat, called, cb, storeVars, pathVars>>

\* line 230: reqwest::blocking::get(jar_url)?
GetJar ==
    /\ pc = "get_jar"
    /\ requests' = [requests EXCEPT ![dep] = @ + 1]
    /\ \/ /\ jar_response' = JarBytes
          /\ pc' = "save_artifact"
          /\ UNCHANGED <<pom_url, jar_url, pom_response, artifact_pom, err>>
       \/ Return("GetError")
    /\ UNCHANGED <<base_path, fs, remote, mode, root, dep, artifact_list,
                   fresh, repeat, called, cb, storeVars, pathVars>>

\* a save_artifact whose io::Result is dropped instead of returned
SaveArtifactUnchecked ==
    /\ pc = "save_artifact"
    /\ \E o \in SaveOutcomes :
           fs' = save_artifact(fs, base_path, dep, jar_response, o)
    /\ pc' = "save_pom"
    /\ UNCHANGED <<pom_url, jar_url, pom_response, jar_response, artifact_pom,
                   err>>
    /\ UNCHANGED <<base_path, remote, mode, root, dep, artifact_list, fresh,
                   repeat, called, cb, requests, storeVars, pathVars>>

\* line 232: self.save_artifact(artifact, jar_response.bytes()?)?
SaveArtifact ==
    /\ pc = "save_artifact"
    /\ \/ /\ fs' = save_artifact(fs, base_path, dep, jar_response, "ok")
          /\ pc' = "save_pom"
          /\ UNCHANGED <<pom_url, jar_url, pom_response, jar_response,
                         artifact_pom, err>>
       \/ /\ UNCHANGED fs
          /\ Return("GetError")
       \/ \E o \in SaveOutcomes \ {"ok"} :
              /\ fs' = save_artifact(fs, base_path, dep, jar_response, o)
              /\ Return("IoError")
    /\ UNCHANGED <<base_path, remote, mode, root, dep, artifact_list, fresh,
                   repeat, called, cb, requests, storeVars, pathVars>>

\* line 233: self.save_pom(artifact, pom_response.bytes()?)?, then line 234
\* (Ok(()) to the caller, or back in the loop body at line 187)
SavePom ==
    /\ pc = "save_pom"
    /\ \/ /\ fs' = save_pom(fs, base_path, dep, pom_response, "ok")
          /\ IF mode = "single"
             THEN /\ pc' = "done"
                  /\ DropLocals
                  /\ UNCHANGED err
             ELSE /\ pc' = "read_pom"
                  /\ DropLocals
                  /\ UNCHANGED err
       \/ /\ UNCHANGED fs
          /\ Return("GetError")
       \/ \E o \in SaveOutcomes \ {"ok"} :
              /\ fs' = save_pom(fs, base_path, dep, pom_response, o)
              /\ Return("IoError")
    /\ UNCHANGED <<base_path, remote, mode, root, dep, artifact_list, fresh,
                   repeat, called, cb, requests, storeVars, pathVars>>

\* line 187: std::fs::read_to_string(self.artifact_pom_path(artifact))?
\* where `artifact` is the parameter of recursive_save_from_remote
ReadPom ==
    /\ pc = "read_pom"
    /\ \/ /\ is_file(fs, artifact_pom_path(base_path, root))
          /\ artifact_pom' = read(fs, artifact_pom_path(base_path, root))
          /\ pc' = "expand"
          /\ UNCHANGED <<pom_url, jar_url, pom_response, jar_response, err>>
       \/ Return("IoError")
    /\ UNCHANGED <<base_path, fs, remote, mode, root, dep, artifact_list,
                   fresh, repeat, called, cb, requests, storeVars, pathVars>>

\* lines 188-192: append the parsed dependencies, keep what does not exist
Expand ==
    /\ pc = "expand"
    /\ IF dependencies_in_pom(artifact_pom) = None
       THEN /\ Return("SerdeXmlParsingError")
            /\ UNCHANGED artifact_list
       ELSE /\ artifact_list' =
                   retain_missing(fs, base_path,
                       artifact_list \o dependencies_in_pom(artifact_pom)[1])
            /\ pc' = "loop"
            /\ DropLocals
            /\ UNCHANGED err
    /\ UNCHANGED <<base_path, fs, remote, mode, root, dep, fresh, repeat, called, cb,
                   requests, storeVars, pathVars>>

\* the state all scenarios start in, but for the repository root, the remote
\* and the caller
Start ==
    /\ fs = EmptyFs
    /\ pc = "idle"
    /\ mode = "single"
    /\ root = A1
    /\ dep = A1
    /\ artifact_list = <<>>
    /\ pom_url = NoUrl
    /\ jar_url = NoUrl
    /\ pom_response = NoBytes
    /\ jar_response = NoBytes
    /\ artifact_pom = NoBytes
    /\ err = "none"
    /\ fresh = TRUE
    /\ called = ZeroCount
    /\ cb = NoCalls
    /\ requests = ZeroCount
    /\ op = "none"
    /\ arg = A1
    /\ saves = {}
    /\ versions = None
    /\ out_dir = None
    /\ out_jar = None
    /\ out_pom = None

\* root declares D1 and D2, D1 declares D2 again
ExampleRemote == (A1 :> Pom(<<A2, A3>>)) @@ (A2 :> Pom(<<A3>>)) @@ (A3 :> Pom(<<>>))
\* a cycle through all three coordinates
CycleRemote == (A1 :> Pom(<<A2>>)) @@ (A2 :> Pom(<<A3>>)) @@ (A3 :> Pom(<<A1>>))
\* no manifest declares anything
EmptyRemote == [a \in Artifacts |-> Pom(<<>>)]

\* one call on an empty local store
Init ==
    /\ Start
    /\ base_path = <<Repo>>
    /\ remote \in Remotes(MaxEdges)
    /\ repeat = FALSE

\* call after call, each on the store the calls before it left
InitCalls ==
    /\ Start
    /\ base_path = <<Repo>>
    /\ remote \in {ExampleRemote, CycleRemote, EmptyRemote}
    /\ repeat = TRUE

Next ==
    \/ CallSaveFromRemote
    \/ CallRecursive
    \/ LoopPop
    \/ LoopExit
    \/ BuildPomUrl
    \/ BuildJarUrl
    \/ Callback
    \/ GetPom
    \/ GetJar
    \/ SaveArtifact
    \/ SavePom
    \/ ReadPom
    \/ Expand

Spec == Init /\ [][Next]_vars

SpecCalls == InitCalls /\ [][Next]_vars

----------------------------------------------------------------------------
(* The store scenario: a caller applies save_artifact, save_pom and        *)
(* get_artifact_available_versions to an empty local store.                *)

Save(operation, a, o) ==
    /\ Cardinality(saves \cup {<<operation, a, o>>}) <= MaxSaves
    /\ saves' = saves \cup {<<operation, a, o>>}
    /\ op' = operation
    /\ arg' = a
    /\ versions' = None
    /\ UNCHANGED <<base_path, resolverVars, pathVars>>

StoreSaveArtifact ==
    \E a \in StoreArtifacts, o \in SaveOutcomes :
        /\ fs' = save_artifact(fs, base_path, a, JarBytes, o)
        /\ Save("save_artifact", a, o)

StoreSavePom ==
    \E a \in StoreArtifacts, o \in SaveOutcomes :
        /\ fs' = save_pom(fs, base_path, a, Pom(<<>>), o)
        /\ Save("save_pom", a, o)

StoreList ==
    \E a \in StoreArtifacts :
        /\ versions' = get_artifact_available_versions(fs, base_path, a)
        /\ op' = "list"
        /\ arg' = a
        /\ UNCHANGED <<base_path, fs, saves, resolverVars, pathVars>>

InitStore ==
    /\ Start
    /\ base_path = <<Repo>>
    /\ remote = EmptyRemote
    /\ repeat = FALSE

NextStore ==
    \/ StoreSaveArtifact
    \/ StoreSavePom
    \/ StoreList

SpecStore == InitStore /\ [][NextStore]_vars

----------------------------------------------------------------------------
(* The path scenario: the three path functions applied to a coordinate.    *)

PathDir ==
    /\ out_dir = None
    /\ out_dir' = Some(artifact_as_dirname(base_path, arg))
    /\ UNCHANGED <<base_path, fs, resolverVars, storeVars, out_jar, out_pom>>

PathJar ==
    /\ out_jar = None
    /\ out_jar' = Some(artifact_jar_path(base_path, arg))
    /\ UNCHANGED <<base_path, fs, resolverVars, storeVars, out_dir, out_pom>>

PathPom ==
    /\ out_pom = None
    /\ out_pom' = Some(artifact_pom_path(base_path, arg))
    /\ UNCHANGED <<base_path, fs, resolverVars, storeVars, out_dir, out_jar>>

InitPath ==
    /\ fs = EmptyFs
    /\ base_path \in Bases
    /\ remote = EmptyRemote
    /\ pc = "idle"
    /\ mode = "single"
    /\ root = A1
    /\ dep = A1
    /\ artifact_list = <<>>
    /\ pom_url = NoUrl
    /\ jar_url = NoUrl
    /\ pom_response = NoBytes
    /\ jar_response = NoBytes
    /\ artifact_pom = NoBytes
    /\ err = "none"
    /\ fresh = TRUE
    /\ repeat = FALSE
    /\ called = ZeroCount
    /\ cb = NoCalls
    /\ requests = ZeroCount
    /\ op = "none"
    /\ arg \in PathArtifacts
    /\ saves = {}
    /\ versions = None
    /\ out_dir = None
    /\ out_jar = None
    /\ out_pom = None

NextPath ==
    \/ PathDir
    \/ PathJar
    \/ PathPom

SpecPath == InitPath /\ [][NextPath]_vars

----------------------------------------------------------------------------
(* Properties.                                                             *)

Deps(r, c) == {r[c].deps[i] : i \in 1..Len(r[c].deps)}

\* the coordinates reachable from those of S through the dependency lists
RECURSIVE ReachFrom(_, _)
ReachFrom(r, S) ==
    LET T == S \cup UNION {Deps(r, c) : c \in S}
    IN IF T = S THEN S ELSE ReachFrom(r, T)

OnCycle(r, c) == c \in ReachFrom(r, Deps(r, c))

PomPath(c) == artifact_pom_path(base_path, c)
JarPath(c) == artifact_jar_path(base_path, c)

\* every manifest in the store is the one the remote declares for its
\* coordinate: no response was an error page, no write was cut short
Faithful ==
    \A c \in Artifacts : exists(fs, base_path, c) => read(fs, PomPath(c)) = remote[c]

\* a recursive call that started on an empty store has returned Ok
ResolvedOk == pc = "done" /\ mode = "recursive" /\ fresh /\ Faithful

\* C1: when recursive_save_from_remote(root) returns Ok and nothing failed,
\* every coordinate reachable from root through the manifests' dependency
\* lists exists in the local store.
TransitiveClosure ==
    ResolvedOk => \A c \in ReachFrom(remote, {root}) : exists(fs, base_path, c)

CycleTermination ==
    /\ pc \notin Idle => ENABLED Next
    /\ ResolvedOk =>
           /\ artifact_list = <<>>
           /\ \A c \in ReachFrom(remote, {root}) :
                  OnCycle(remote, c) => called[c] = 1 /\ exists(fs, base_path, c)

\* the errors the statement at each position can return
ErrorsAt(p) ==
    CASE p \in {"pom_url", "jar_url"} -> {"InvalidArtifactName"}
      [] p \in {"get_pom", "get_jar"} -> {"GetError"}
      [] p \in {"save_artifact", "save_pom"} -> {"GetError", "IoError"}
      [] p = "read_pom" -> {"IoError"}
      [] p = "expand" -> {"SerdeXmlParsingError"}
      [] OTHER -> {}

\* C4: a failing step returns its own error in that very step; after the
\* error nothing happens but the caller starting another call, which itself
\* does nothing to the store; and no step removes a file from the store.
AbortOnFirstFailure ==
    [][/\ (err = "none" /\ err' # "none") =>
              pc' = "failed" /\ err' \in ErrorsAt(pc)
       /\ pc = "failed" =>
              /\ fs' = fs
              /\ err' = "none"
              /\ cb' = NoCalls
              /\ requests' = ZeroCount
       /\ \A f \in fs.files : is_file(fs', f.path)]_vars

\* a recursive call failed with coordinates left on the frontier and files
\* saved before the failure
AbortWitness ==
    /\ pc = "failed"
    /\ mode = "recursive"
    /\ artifact_list # <<>>
    /\ \E c \in Artifacts : exists(fs, base_path, c) /\ is_file(fs, JarPath(c))

\* C5: from an empty store, exists(c) is false as long as save_pom(c, _) was
\* not called (also after save_artifact(c, _)), and true once save_pom(c, _)
\* has succeeded.
PresenceWitness ==
    \A c \in StoreArtifacts :
        /\ (\A o \in SaveOutcomes : <<"save_pom", c, o>> \notin saves)
               => ~exists(fs, base_path, c)
        /\ <<"save_pom", c, "ok">> \in saves => exists(fs, base_path, c)

\* C6: the callback runs once per save_from_remote, after both urls are
\* built and before the first request, with the pom's url first and the
\* jar's second; its step changes neither store nor frontier nor fetch counts.
CallbackOrdering ==
    /\ [](\A c \in Artifacts :
              /\ Len(cb[c]) <= called[c]
              /\ requests[c] > 0 => Len(cb[c]) = called[c]
              /\ \A i \in 1..Len(cb[c]) :
                     cb[c][i] = <<pom_artifact_url(c), jar_artifact_url(c)>>)
    /\ [](pc \in {"pom_url", "jar_url", "callback"} =>
              Len(cb[dep]) = called[dep] - 1 /\ requests[dep] = 0)
    /\ [](pc \in {"get_pom", "get_jar", "save_artifact", "save_pom"} =>
              Len(cb[dep]) = called[dep])
    /\ [][pc = "callback" =>
              /\ Len(cb'[dep]) = Len(cb[dep]) + 1
              /\ UNCHANGED <<fs, artifact_list, called, requests, dep>>]_vars

\* a request was made after the callback ran
CallbackWitness ==
    /\ pc = "get_jar"
    /\ mode = "recursive"
    /\ dep # root
    /\ Len(cb[dep]) = 1
    /\ requests[dep] = 1

\* C7: the directory of a coordinate is the root, one component per
\* '.'-separated segment of the group, then the name; o.j:a:1.0 under /repo
\* has the binary path /repo/o/j/a/1.0.jar.
StorageLayout ==
    /\ out_dir # None =>
           out_dir[1] = base_path \o split(arg.group_id) \o <<arg.artifact_id>>
    /\ (out_jar # None /\ arg = A1 /\ base_path = <<Repo>>) =>
           out_jar[1] = <<Repo, <<"o">>, <<"j">>, <<"a">>,
                          <<"1", Dot, "0", Dot, "j", "a", "r">> >>

\* C8: the jar path is the directory joined with version + ".jar", the pom
\* path the directory joined with version + ".pom", whatever the version.
SuffixAppending ==
    /\ out_jar # None =>
           out_jar[1] = Append(artifact_as_dirname(base_path, arg),
                               arg.version \o JarSuffix)
    /\ out_pom # None =>
           out_pom[1] = Append(artifact_as_dirname(base_path, arg),
                               arg.version \o PomSuffix)
    /\ (out_jar # None /\ out_pom # None) => Front(out_jar[1]) = Front(out_pom[1])

\* the saves made so far that succeeded, and all that were tried
Saved == {h[2] : h \in {g \in saves : g[3] = "ok"}}
Tried == {h[2] : h \in saves}

\* C9: after a save for c succeeded, the versions listed for c contain
\* c.version, and are exactly {c.version} when c is all that was saved.
SaveListRoundTrip ==
    (op = "list" /\ arg \in Saved) =>
        /\ versions # None
        /\ arg.version \in versions[1]
        /\ Tried = {arg} => versions[1] = {arg.version}

\* C10: a coordinate whose manifest file is present has its binary file
\* present too, after any sequence of calls, failed ones included.
PomImpliesJar ==
    \A c \in Artifacts : exists(fs, base_path, c) => is_file(fs, JarPath(c))

\* a later call failed between its two saves: one coordinate is whole, of
\* another only the binary is there
PomImpliesJarWitness ==
    /\ pc = "failed"
    /\ \E c \in Artifacts : exists(fs, base_path, c) /\ is_file(fs, JarPath(c))
    /\ \E c \in Artifacts : ~exists(fs, base_path, c) /\ is_file(fs, JarPath(c))

====
